---- MODULE Spec2Model ----
(***************************************************************************)
(* Model of main.py of short-strangle-kite: the timer-scheduled short      *)
(* strangle.  The operator queues (price, time) requests; each request     *)
(* arms a threading.Timer whose thread runs sell(price): it refreshes the  *)
(* module-level snapshot (ATM, TSUD, CE_OTM, PE_OTM), fetches the quotes   *)
(* of the call and put candidates, matches them against the price and      *)
(* places one SELL order per leg.                                          *)
(*                                                                         *)
(* Prices are integers.  The two tolerances 0.1 and 0.05 are kept as the   *)
(* fractions 1/10 and 1/20: for integer prices the float products          *)
(* ltp * 0.1 and ce * 0.05 compare with an integer exactly as ltp / 10     *)
(* and ce / 20 do.                                                         *)
(***************************************************************************)
EXTENDS Integers, Sequences, FiniteSets, TLC

VARIABLES
    clock,      \* datetime.datetime.now(), in whole seconds of the day
    mainPc,     \* position of the __main__ loop: "menu" or "exited"
    jobs,       \* the Timer threads started by sell_at, in arming order
    ATM,        \* global ATM
    TSUD,       \* global TSUD
    CE_OTM,     \* global CE_OTM
    PE_OTM,     \* global PE_OTM
    call        \* the function applied on its own, with its inputs and its result

vars == <<clock, mainPc, jobs, ATM, TSUD, CE_OTM, PE_OTM, call>>

(***************************************************************************)
(* Bounds of the model.                                                    *)
(***************************************************************************)
MaxJobs == 2        \* requests the operator queues in one run
MaxTime == 1        \* last second of the clock, and last time the operator can enter
MaxQuotes == 3      \* quotes per list when the matchers are applied on their own

(***************************************************************************)
(* The instrument universe (lines 268-282).                                *)
(***************************************************************************)
MinStrike == 17250
SpdStep == 50
NumStrikes == 24

Abs(x) == IF x < 0 THEN -x ELSE x

\* strike_prices, line 279: the sorted distinct strikes of the expiry
strike_prices == [k \in 1..NumStrikes |-> MinStrike + (k - 1) * SpdStep]

\* SPD, line 282
SPD == strike_prices[2] - strike_prices[1]

\* one row of kite.instruments("NFO"): the fields main.py reads
\* the lot size of a row of kite.instruments: each row carries its own, and
\* lines 268-278 keep whatever the rows hold; here the puts' differs from the
\* calls'
LotSize(type) == IF type = "CE" THEN 50 ELSE 25

Instrument(strike, type) ==
    [strike |-> strike, instrument_type |-> type, exchange |-> "NFO",
     tradingsymbol |-> <<"NIFTY", strike, type>>, lot_size |-> LotSize(type)]

\* instruments, line 278: per strike the CE then the PE
instruments ==
    [n \in 1..(2 * NumStrikes) |->
        Instrument(strike_prices[(n + 1) \div 2], IF n % 2 = 1 THEN "CE" ELSE "PE")]

(***************************************************************************)
(* get_atm, lines 51-63: round(ltp / spd) * spd.  Python 3 round() rounds  *)
(* to the nearest integer and an exact half to the even neighbour.         *)
(***************************************************************************)
\* rounding to the nearest integer with an exact half going up
RoundHalfUp(num, den) == (2 * num + den) \div (2 * den)

PyRound(num, den) ==
    LET q == num \div den
        r == num % den
    IN  IF 2 * r < den THEN q
        ELSE IF 2 * r > den THEN q + 1
        ELSE IF q % 2 = 0 THEN q ELSE q + 1

get_atm(ltp, spd) == PyRound(ltp, spd) * spd

(***************************************************************************)
(* refresh_data, lines 66-76, statement by statement.                      *)
(***************************************************************************)
\* the test of the comprehension of line 74
InWindow(i, atm) == (atm - SPD * 10) <= i.strike /\ i.strike <= (atm + SPD * 10)

\* the test of the comprehension of line 75
IsCeOtm(i, atm) == i.instrument_type = "CE" /\ i.strike > atm

\* the test of the comprehension of line 76
IsPeOtm(i, atm) == i.instrument_type = "PE" /\ i.strike < atm

Line74(atm) == LET Test(i) == InWindow(i, atm) IN SelectSeq(instruments, Test)
Line75(tsud, atm) == LET Test(i) == IsCeOtm(i, atm) IN SelectSeq(tsud, Test)
Line76(tsud, atm) == LET Test(i) == IsPeOtm(i, atm) IN SelectSeq(tsud, Test)

(***************************************************************************)
(* The same comprehensions with another thread running.  Each one loads    *)
(* the global ATM anew for every element (twice for an element of line     *)
(* 74), and another thread's line 73 may store ATM between two loads.      *)
(* seen lists the values ATM had from the statement's start on, and        *)
(* cuts[c] is the number of loads done when the value changed from seen[c] *)
(* to seen[c + 1]: the r-th load reads seen[Version(r, cuts)].             *)
(***************************************************************************)
Version(r, cuts) == 1 + Cardinality({c \in DOMAIN cuts : cuts[c] < r})

\* the ways `loads` loads can fall among the stores that made seen
Cuts(seen, loads) ==
    {cuts \in [1..(Len(seen) - 1) -> 0..loads] :
        \A a, b \in DOMAIN cuts : a <= b => cuts[a] <= cuts[b]}

Indexed(s) == [n \in 1..Len(s) |-> <<n, s[n]>>]
Unindexed(s) == [n \in 1..Len(s) |-> s[n][2]]

\* line 74: the n-th element's lower bound is load 2n - 1, its upper bound load 2n
Line74Loads(seen, cuts) ==
    LET Test(e) == /\ (seen[Version(2 * e[1] - 1, cuts)] - SPD * 10) <= e[2].strike
                   /\ e[2].strike <= (seen[Version(2 * e[1], cuts)] + SPD * 10)
    IN  Unindexed(SelectSeq(Indexed(instruments), Test))

\* line 75 over the list tsud that the statement began with
Line75Loads(tsud, seen, cuts) ==
    LET Test(e) == IsCeOtm(e[2], seen[Version(e[1], cuts)])
    IN  Unindexed(SelectSeq(Indexed(tsud), Test))

\* line 76 over the list tsud that the statement began with
Line76Loads(tsud, seen, cuts) ==
    LET Test(e) == IsPeOtm(e[2], seen[Version(e[1], cuts)])
    IN  Unindexed(SelectSeq(Indexed(tsud), Test))

\* the four globals after one uninterrupted refresh_data() that fetched ltp
refresh_data(ltp) ==
    LET atm == get_atm(ltp, SPD)
        tsud == Line74(atm)
    IN  [ATM |-> atm, TSUD |-> tsud, CE_OTM |-> Line75(tsud, atm), PE_OTM |-> Line76(tsud, atm)]

(***************************************************************************)
(* Python's list.sort / sorted: stable, by the k-th component of each      *)
(* element, descending when reverse (equal keys keep their order).         *)
(***************************************************************************)
RECURSIVE InsertSorted(_, _, _, _)
InsertSorted(x, s, k, reverse) ==
    IF s = <<>> THEN <<x>>
    ELSE LET before == IF reverse THEN s[1][k] >= x[k] ELSE s[1][k] <= x[k]
         IN  IF before THEN <<s[1]>> \o InsertSorted(x, Tail(s), k, reverse)
             ELSE <<x>> \o s

RECURSIVE PySorted(_, _, _)
PySorted(s, k, reverse) ==
    IF s = <<>> THEN <<>>
    ELSE InsertSorted(s[Len(s)], PySorted(SubSeq(s, 1, Len(s) - 1), k, reverse), k, reverse)

\* zip(a, b): as long as the shorter of the two
Zip(a, b) ==
    LET n == IF Len(a) < Len(b) THEN Len(a) ELSE Len(b)
    IN  [i \in 1..n |-> <<a[i], b[i]>>]

\* truth value of a Python list or tuple
Truthy(x) == Len(x) > 0

Range(s) == {s[n] : n \in DOMAIN s}

(***************************************************************************)
(* The upstream (kite.ltp, kite.place_order) as the program sees it.       *)
(***************************************************************************)
\* the key f"{exchange}:{tradingsymbol}" of line 47
QuoteKey(i) == <<i.exchange, i.tradingsymbol>>

Max(a, b) == IF a >= b THEN a ELSE b

\* The option chain of one market moment: a premium of `base` at the spot strike,
\* falling per strike out of the money (and rising per strike in the money) by
\* `ce_step` for a call and by `pe_step` for a put.
Markets == {[spot |-> 17850, base |-> 120, ce_step |-> 5, pe_step |-> 9]}

LastPrice(i, m) ==
    LET out == IF i.instrument_type = "CE" THEN (i.strike - m.spot) \div SPD
               ELSE (m.spot - i.strike) \div SPD
    IN  Max(1, m.base - (IF i.instrument_type = "CE" THEN m.ce_step ELSE m.pe_step) * out)

\* The answers kite.ltp can give to a list of instruments: a mapping from key to
\* last price, as the sequence of its items in the order the upstream sent them
\* (the order a Python dict iterates in), here the order asked for.
KiteLtp(insts) ==
    UNION {LET asked == [n \in 1..Len(insts) |-> <<QuoteKey(insts[n]), LastPrice(insts[n], m)>>]
           IN  {asked} : m \in Markets}

\* the last prices of NSE:NIFTY 50 that get_ltp() returns (line 37)
RefPrices == {17825, 17925}

(***************************************************************************)
(* get_ltp_from_inst_list, lines 40-48, given the upstream's answer ltps:  *)
(* line 48 walks the answer in the answer's own order.                     *)
(***************************************************************************)
get_ltp_from_inst_list(ltps) == [n \in 1..Len(ltps) |-> ltps[n][2]]

\* the first argument of zip in lines 166 and 169: [x["strike"] for x in otm]
Strikes(otm) == [n \in 1..Len(otm) |-> otm[n].strike]

\* the right-hand side of lines 166 and 169: the strikes read first, zipped with
\* the prices of the answer ltps and sorted by price
ZippedQuotes(strikes, ltps) ==
    PySorted(Zip(strikes, get_ltp_from_inst_list(ltps)), 2, FALSE)

(***************************************************************************)
(* get_instrument, lines 80-91: the first instrument with the strike;      *)
(* the IndexError of [0] on an empty list is re-raised as Exception.       *)
(***************************************************************************)
StrikeMatches(strike, insts) == LET Test(i) == i.strike = strike IN SelectSeq(insts, Test)

get_instrument_raises(strike, insts) == StrikeMatches(strike, insts) = <<>>

get_instrument(strike, insts) == StrikeMatches(strike, insts)[1]

(***************************************************************************)
(* sell.fetch_strike_at_price, lines 171-205.  change is <<num, den>>.     *)
(***************************************************************************)
\* InBand with the tolerance taken of the target price instead of the quote
InBandOfPrice(price, ltp, change) == Abs(price - ltp) * change[2] <= price * change[1]

\* the test of lines 193 and 197: abs(price - ltp) <= ltp * change
InBand(price, ltp, change) == Abs(price - ltp) * change[2] <= ltp * change[1]

\* the loops of lines 192-198
Survivors(price, zipped, change) ==
    LET Test(q) == InBand(price, q[2], change) IN SelectSeq(zipped, Test)

\* FirstCall with the sort of line 201 descending
HighestCall(ce) == PySorted(ce, 1, TRUE)[1]

\* lines 201 and 203: the call survivors by strike ascending, the first one
FirstCall(ce) == PySorted(ce, 1, FALSE)[1]

\* lines 202 and 203: the put survivors by strike descending, the first one
FirstPut(pe) == PySorted(pe, 1, TRUE)[1]

\* the returned [ce, pe]: two (strike, ltp) tuples when both lists have
\* survivors, the two survivor lists themselves otherwise
fetch_strike_at_price(price, zipped_ce, zipped_pe, change) ==
    LET ce == Survivors(price, zipped_ce, change)
        pe == Survivors(price, zipped_pe, change)
    IN  IF Truthy(ce) /\ Truthy(pe) THEN <<FirstCall(ce), FirstPut(pe)>> ELSE <<ce, pe>>

(***************************************************************************)
(* sell.fetch_strikes_with_similar_ltp, lines 207-225.                     *)
(***************************************************************************)
\* Similar with the bound itself let in
SimilarOrEqual(ce, pe, change) == Abs(pe - ce) * change[2] <= ce * change[1]

\* the test of line 222 with diff of line 220: abs(pe - ce) < ce * change
Similar(ce, pe, change) == Abs(pe - ce) * change[2] < ce * change[1]

\* the pairs list after the loops of lines 219-223: calls outermost
SimilarPairs(zipped_ce, zipped_pe, change) ==
    LET m == Len(zipped_pe)
        all == [n \in 1..(Len(zipped_ce) * m) |->
                   LET c == zipped_ce[((n - 1) \div m) + 1]
                       p == zipped_pe[((n - 1) % m) + 1]
                   IN  <<Abs(p[1] - c[1]), c, p>>]
        Test(t) == Similar(t[2][2], t[3][2], change)
    IN  SelectSeq(all, Test)

fetch_strikes_with_similar_ltp(zipped_ce, zipped_pe, change) ==
    LET pairs == PySorted(SimilarPairs(zipped_ce, zipped_pe, change), 1, FALSE)
    IN  [n \in 1..Len(pairs) |-> <<pairs[n][2], pairs[n][3]>>]

\* the tolerances sell() passes: 0.1 at line 228, the default 0.05 at line 233
AtPriceChange == <<1, 10>>
SimilarChange == <<1, 20>>

(***************************************************************************)
(* The state after the module body has run (lines 262-287) and before the  *)
(* first prompt of the __main__ loop.                                      *)
(***************************************************************************)
TargetPrices == {120}

\* what get_ltp() returns to the module body's refresh_data(), line 287
BootPrices == {17825}

NoCall == [fn |-> "none"]
NoOrder == [status |-> "none"]

Init ==
    /\ clock = 0
    /\ mainPc = "menu"
    /\ jobs = <<>>
    /\ \E ltp \in BootPrices :
          LET snap == refresh_data(ltp)
          IN  /\ ATM = snap.ATM
              /\ TSUD = snap.TSUD
              /\ CE_OTM = snap.CE_OTM
              /\ PE_OTM = snap.PE_OTM
    /\ call = NoCall

(***************************************************************************)
(* The __main__ loop, lines 290-313, input_time and sell_at.               *)
(***************************************************************************)
\* datetime.datetime.now() moves on
Tick ==
    /\ clock < MaxTime
    /\ clock' = clock + 1
    /\ UNCHANGED <<mainPc, jobs, ATM, TSUD, CE_OTM, PE_OTM, call>>

\* lines 295-296 and 312: option 0 leaves the loop
ExitAddOrder ==
    /\ mainPc = "menu"
    /\ mainPc' = "exited"
    /\ UNCHANGED <<clock, jobs, ATM, TSUD, CE_OTM, PE_OTM, call>>

\* lines 137-138: the delay for which input_time raises ValueError
input_time_raises(delay) == delay < 0

\* the thread sell_at starts, lines 152-155: Timer(delay, sell, args=(price,))
NewJob(price, delay, now) ==
    [price |-> price, delay |-> delay, armedAt |-> now, pc |-> "armed",
     runs |-> 0, error |-> "", atm |-> 0, seen |-> <<>>, src |-> <<>>,
     zipped_ce |-> <<>>, zipped_pe |-> <<>>,
     ce |-> <<>>, pe |-> <<>>, similar |-> <<>>,
     ce_ins |-> <<>>, pe_ins |-> <<>>, qty |-> 0,
     ce_order |-> NoOrder, pe_order |-> NoOrder]

\* lines 294-309, one request: option 1, a price and the time t of today.
\* input_time returns the delay or raises; when it raises the time is asked
\* again (nothing has changed); otherwise sell_at arms the Timer.
AddOrder(p, t) ==
    /\ mainPc = "menu"
    /\ Len(jobs) < MaxJobs
    /\ LET delay == t - clock
       IN  IF input_time_raises(delay)
           THEN UNCHANGED jobs
           ELSE jobs' = Append(jobs, NewJob(p, delay, clock))
    /\ UNCHANGED <<clock, mainPc, ATM, TSUD, CE_OTM, PE_OTM, call>>

(***************************************************************************)
(* One Timer thread: threading.Timer waits delay seconds, then runs        *)
(* sell(price), lines 158-257.  A step ends at each load or store of a     *)
(* global that another thread may store or load in between: a statement    *)
(* that loads a global more than once takes more than one step.  An        *)
(* exception that sell does not catch ends the thread.                     *)
(***************************************************************************)
\* thread j is at pc, in a process that has not exited
At(j, pc) == j \in 1..Len(jobs) /\ jobs[j].pc = pc /\ mainPc # "terminated"

\* TimerDue with the wait left out
TimerDueAtOnce(job, now) == TRUE

\* the Timer's wait is over
TimerDue(job, now) == now >= job.armedAt + job.delay

\* TimerExpired with sell starting at line 166, the refresh left out
TimerExpiredSkipsRefresh(j) ==
    /\ At(j, "armed")
    /\ TimerDue(jobs[j], clock)
    /\ jobs' = [jobs EXCEPT ![j] = [@ EXCEPT !.pc = "L166", !.runs = @ + 1,
                                          !.delay = 0, !.armedAt = 0]]
    /\ UNCHANGED <<clock, mainPc, ATM, TSUD, CE_OTM, PE_OTM, call>>

\* the Timer runs sell; its interval is of no use from then on and is dropped
TimerExpired(j) ==
    /\ At(j, "armed")
    /\ TimerDue(jobs[j], clock)
    /\ jobs' = [jobs EXCEPT ![j] = [@ EXCEPT !.pc = "L73", !.runs = @ + 1,
                                          !.delay = 0, !.armedAt = 0]]
    /\ UNCHANGED <<clock, mainPc, ATM, TSUD, CE_OTM, PE_OTM, call>>

\* GetLtpFails with the refresh started again instead of the thread ending
GetLtpFailsRetries(j) ==
    /\ At(j, "L73")
    /\ jobs' = [jobs EXCEPT ![j] = [@ EXCEPT !.pc = "L73", !.error = "get_ltp", !.runs = @ + 1]]
    /\ UNCHANGED <<clock, mainPc, ATM, TSUD, CE_OTM, PE_OTM, call>>

\* GetLtpFails with the global ATM lost
GetLtpFailsClearsATM(j) ==
    /\ At(j, "L73")
    /\ jobs' = [jobs EXCEPT ![j] = [@ EXCEPT !.pc = "error", !.error = "get_ltp"]]
    /\ ATM' = 0
    /\ UNCHANGED <<clock, mainPc, TSUD, CE_OTM, PE_OTM, call>>

\* line 73, get_ltp() raises
GetLtpFails(j) ==
    /\ At(j, "L73")
    /\ jobs' = [jobs EXCEPT ![j] = [@ EXCEPT !.pc = "error", !.error = "get_ltp"]]
    /\ UNCHANGED <<clock, mainPc, ATM, TSUD, CE_OTM, PE_OTM, call>>

\* thread k is inside one of the comprehensions of lines 74-76
InComprehension(job) == job.pc \in {"L74", "L75i", "L76i"}

\* what a store of atm into ATM means to a thread inside a comprehension: its
\* loads from now on read atm
Stored(job, atm) ==
    IF InComprehension(job) /\ job.seen[Len(job.seen)] # atm
    THEN [job EXCEPT !.seen = Append(@, atm)]
    ELSE job

\* line 73: ATM = get_atm(get_ltp(), SPD)
Refresh73(j, ltp) ==
    /\ At(j, "L73")
    /\ ATM' = get_atm(ltp, SPD)
    /\ jobs' = [k \in 1..Len(jobs) |->
                  IF k = j
                  THEN [jobs[j] EXCEPT !.pc = "L74", !.atm = get_atm(ltp, SPD),
                                       !.seen = <<get_atm(ltp, SPD)>>]
                  ELSE Stored(jobs[k], get_atm(ltp, SPD))]
    /\ UNCHANGED <<clock, mainPc, TSUD, CE_OTM, PE_OTM, call>>

\* line 74, to the store of TSUD: the comprehension walks the module's list
\* instruments and loads ATM for each element
Refresh74(j) ==
    /\ At(j, "L74")
    /\ \E cuts \in Cuts(jobs[j].seen, 2 * Len(instruments)) :
          TSUD' = Line74Loads(jobs[j].seen, cuts)
    /\ jobs' = [jobs EXCEPT ![j] = [@ EXCEPT !.pc = "L75", !.seen = <<>>]]
    /\ UNCHANGED <<clock, mainPc, ATM, CE_OTM, PE_OTM, call>>

\* line 75 begins: the global TSUD is loaded once, the list it names is walked
Iter75(j) ==
    /\ At(j, "L75")
    /\ jobs' = [jobs EXCEPT ![j] = [@ EXCEPT !.pc = "L75i", !.src = TSUD, !.seen = <<ATM>>]]
    /\ UNCHANGED <<clock, mainPc, ATM, TSUD, CE_OTM, PE_OTM, call>>

\* line 75, to the store of CE_OTM
Refresh75(j) ==
    /\ At(j, "L75i")
    /\ \E cuts \in Cuts(jobs[j].seen, Len(jobs[j].src)) :
          CE_OTM' = Line75Loads(jobs[j].src, jobs[j].seen, cuts)
    /\ jobs' = [jobs EXCEPT ![j] = [@ EXCEPT !.pc = "L76", !.src = <<>>, !.seen = <<>>]]
    /\ UNCHANGED <<clock, mainPc, ATM, TSUD, PE_OTM, call>>

\* line 76 begins: the global TSUD is loaded once
Iter76(j) ==
    /\ At(j, "L76")
    /\ jobs' = [jobs EXCEPT ![j] = [@ EXCEPT !.pc = "L76i", !.src = TSUD, !.seen = <<ATM>>]]
    /\ UNCHANGED <<clock, mainPc, ATM, TSUD, CE_OTM, PE_OTM, call>>

\* line 76, to the store of PE_OTM
Refresh76(j) ==
    /\ At(j, "L76i")
    /\ \E cuts \in Cuts(jobs[j].seen, Len(jobs[j].src)) :
          PE_OTM' = Line76Loads(jobs[j].src, jobs[j].seen, cuts)
    /\ jobs' = [jobs EXCEPT ![j] = [@ EXCEPT !.pc = "L166", !.src = <<>>, !.seen = <<>>]]
    /\ UNCHANGED <<clock, mainPc, ATM, TSUD, CE_OTM, call>>

\* QuotesFail with the exception ending the process and not the thread alone
QuotesFailEndsProcess(j) ==
    /\ At(j, "L166q") \/ At(j, "L169q")
    /\ jobs' = [jobs EXCEPT ![j] = [@ EXCEPT !.pc = "error", !.error = "get_ltp_from_inst_list",
                                        !.src = <<>>]]
    /\ mainPc' = "terminated"
    /\ UNCHANGED <<clock, ATM, TSUD, CE_OTM, PE_OTM, call>>

\* line 166 or 169, kite.ltp raises inside get_ltp_from_inst_list
QuotesFail(j) ==
    /\ At(j, "L166q") \/ At(j, "L169q")
    /\ jobs' = [jobs EXCEPT ![j] = [@ EXCEPT !.pc = "error", !.error = "get_ltp_from_inst_list",
                                        !.src = <<>>]]
    /\ UNCHANGED <<clock, mainPc, ATM, TSUD, CE_OTM, PE_OTM, call>>

\* line 166, the first load of the global CE_OTM: [ce["strike"] for ce in CE_OTM]
Strikes166(j) ==
    /\ At(j, "L166")
    /\ jobs' = [jobs EXCEPT ![j] = [@ EXCEPT !.pc = "L166q", !.src = Strikes(CE_OTM)]]
    /\ UNCHANGED <<clock, mainPc, ATM, TSUD, CE_OTM, PE_OTM, call>>

\* line 166, the second load of the global CE_OTM, as it is now: the argument
\* of get_ltp_from_inst_list; its prices are zipped with the strikes read before
Quotes166(j) ==
    /\ At(j, "L166q")
    /\ \E ltps \in KiteLtp(CE_OTM) :
          jobs' = [jobs EXCEPT ![j] = [@ EXCEPT !.pc = "L169", !.src = <<>>,
                                                !.zipped_ce = ZippedQuotes(jobs[j].src, ltps)]]
    /\ UNCHANGED <<clock, mainPc, ATM, TSUD, CE_OTM, PE_OTM, call>>

\* line 169, the first load of the global PE_OTM: [pe["strike"] for pe in PE_OTM]
Strikes169(j) ==
    /\ At(j, "L169")
    /\ jobs' = [jobs EXCEPT ![j] = [@ EXCEPT !.pc = "L169q", !.src = Strikes(PE_OTM)]]
    /\ UNCHANGED <<clock, mainPc, ATM, TSUD, CE_OTM, PE_OTM, call>>

\* Matched with one leg being enough
MatchedEither(ce, pe) == Truthy(ce) \/ Truthy(pe)

\* the test of line 230 is false: both legs matched
Matched(ce, pe) == Truthy(ce) /\ Truthy(pe)

\* line 169, the second load of the global PE_OTM, as it is now; then lines
\* 228-230, which read the thread's own variables only:
\* ce, pe = fetch_strike_at_price(0.1) and the branch
Quotes169(j) ==
    /\ At(j, "L169q")
    /\ \E ltps \in KiteLtp(PE_OTM) :
          LET zipped_pe == ZippedQuotes(jobs[j].src, ltps)
              r == fetch_strike_at_price(jobs[j].price, jobs[j].zipped_ce, zipped_pe, AtPriceChange)
          IN  jobs' = [jobs EXCEPT ![j] = [@ EXCEPT !.zipped_pe = zipped_pe, !.src = <<>>,
                                                    !.ce = r[1], !.pe = r[2],
                                                    !.pc = IF Matched(r[1], r[2]) THEN "L242" ELSE "L233"]]
    /\ UNCHANGED <<clock, mainPc, ATM, TSUD, CE_OTM, PE_OTM, call>>

\* lines 231-239: the similar pairs are computed and printed; sell returns
Report233(j) ==
    /\ At(j, "L233")
    /\ jobs' = [jobs EXCEPT ![j] = [@ EXCEPT !.pc = "done",
                    !.similar = fetch_strikes_with_similar_ltp(jobs[j].zipped_ce,
                                                               jobs[j].zipped_pe, SimilarChange)]]
    /\ UNCHANGED <<clock, mainPc, ATM, TSUD, CE_OTM, PE_OTM, call>>

\* line 242: ce_ins = get_instrument(ce[0], CE_OTM), from the global as it is now
Lookup242(j) ==
    /\ At(j, "L242")
    /\ jobs' = [jobs EXCEPT ![j] =
                  IF get_instrument_raises(jobs[j].ce[1], CE_OTM)
                  THEN [@ EXCEPT !.pc = "error", !.error = "get_instrument"]
                  ELSE [@ EXCEPT !.pc = "L243", !.ce_ins = get_instrument(jobs[j].ce[1], CE_OTM)]]
    /\ UNCHANGED <<clock, mainPc, ATM, TSUD, CE_OTM, PE_OTM, call>>

\* lines 243-245: pe_ins = get_instrument(pe[0], PE_OTM); qty = 1 * ce_ins['lot_size']
Lookup243(j) ==
    /\ At(j, "L243")
    /\ jobs' = [jobs EXCEPT ![j] =
                  IF get_instrument_raises(jobs[j].pe[1], PE_OTM)
                  THEN [@ EXCEPT !.pc = "error", !.error = "get_instrument"]
                  ELSE [@ EXCEPT !.pc = "L251", !.pe_ins = get_instrument(jobs[j].pe[1], PE_OTM),
                                 !.qty = 1 * jobs[j].ce_ins.lot_size]]
    /\ UNCHANGED <<clock, mainPc, ATM, TSUD, CE_OTM, PE_OTM, call>>

\* place_order, lines 94-122, as sell calls it: the order sent, and whether
\* kite.place_order returned an order id or raised (logged and raised again)
place_order(ins, qty, leg, ok) ==
    [status |-> IF ok THEN "placed" ELSE "failed",
     tradingsymbol |-> ins.tradingsymbol, quantity |-> qty,
     sl |-> [num |-> leg[2] * 2, den |-> 10], ttype |-> "SELL"]

\* lines 250-253: the call leg; the exception of place_order is not caught
Order251(j, ok) ==
    /\ At(j, "L251")
    /\ jobs' = [jobs EXCEPT ![j] =
                  [@ EXCEPT !.ce_order = place_order(jobs[j].ce_ins, jobs[j].qty, jobs[j].ce, ok),
                            !.pc = IF ok THEN "L255" ELSE "error",
                            !.error = IF ok THEN "" ELSE "place_order"]]
    /\ UNCHANGED <<clock, mainPc, ATM, TSUD, CE_OTM, PE_OTM, call>>

\* lines 254-257: the put leg
Order255(j, ok) ==
    /\ At(j, "L255")
    /\ jobs' = [jobs EXCEPT ![j] =
                  [@ EXCEPT !.pe_order = place_order(jobs[j].pe_ins, jobs[j].qty, jobs[j].pe, ok),
                            !.pc = IF ok THEN "done" ELSE "error",
                            !.error = IF ok THEN "" ELSE "place_order"]]
    /\ UNCHANGED <<clock, mainPc, ATM, TSUD, CE_OTM, PE_OTM, call>>

\* one step of the Timer thread j
JobStep(j) ==
    \/ TimerExpired(j)
    \/ GetLtpFails(j)
    \/ \E ltp \in RefPrices : Refresh73(j, ltp)
    \/ Refresh74(j)
    \/ Iter75(j)
    \/ Refresh75(j)
    \/ Iter76(j)
    \/ Refresh76(j)
    \/ QuotesFail(j)
    \/ Strikes166(j)
    \/ Quotes166(j)
    \/ Strikes169(j)
    \/ Quotes169(j)
    \/ Report233(j)
    \/ Lookup242(j)
    \/ Lookup243(j)
    \/ \E ok \in BOOLEAN : Order251(j, ok)
    \/ \E ok \in BOOLEAN : Order255(j, ok)

\* ThreadsAlive with the Timer threads not counted, as daemon threads are
NoThreadCounted == FALSE

\* lines 152-154: a Timer is a thread of its own and not a daemon; it is alive
\* until sell has returned or raised
ThreadsAlive == \E j \in 1..Len(jobs) : jobs[j].pc \notin {"done", "error"}

\* after line 313 the main thread has ended; the process exits when no Timer
\* thread is alive
ProcessExit ==
    /\ mainPc = "exited"
    /\ ~ThreadsAlive
    /\ mainPc' = "terminated"
    /\ UNCHANGED <<clock, jobs, ATM, TSUD, CE_OTM, PE_OTM, call>>

MainStep ==
    \/ \E p \in TargetPrices, t \in 0..MaxTime : AddOrder(p, t)
    \/ ExitAddOrder
    \/ ProcessExit

Next ==
    \/ Tick
    \/ MainStep
    \/ \E j \in 1..MaxJobs : JobStep(j)

Spec == Init /\ [][Next]_vars

\* The same with the scheduling the Timers have: the clock moves on, and a
\* Timer thread whose wait is over does start sell.  The operator owes nothing.
FairSpec == Spec /\ WF_vars(Tick) /\ \A j \in 1..MaxJobs : WF_vars(TimerExpired(j))

\* thread j is inside sell, before its return or its exception
Running(j) == j \in 1..Len(jobs) /\ jobs[j].pc \notin {"armed", "done", "error"}

\* The same with every Timer thread running on: a thread that can take its
\* next statement does take it.
RunSpec ==
    /\ FairSpec
    /\ \A j \in 1..MaxJobs : []<>~Running(j)

(***************************************************************************)
(* The matchers of sell on their own: every pair of quote lists of up to   *)
(* MaxQuotes strikes on each side of one ATM, as lines 166 and 169 build   *)
(* them (sorted by ltp), a price and a tolerance; then one of the two      *)
(* functions is applied.                                                   *)
(***************************************************************************)
MatchAtm == get_atm(17832, SPD)
CallLtps == {92, 100, 101, 115}
PutLtps == {98, 105, 110}
MatchPrices == {99, 100}
Changes == {AtPriceChange, SimilarChange}

\* the zipped lists of the strikes MatchAtm + side * k * SPD, k = 1..MaxQuotes in
\* the order of `instruments`, each strike quoted at one of ltps or not listed (0)
QuoteLists(side, ltps) ==
    {LET all == [n \in 1..MaxQuotes |->
                    LET k == IF side = 1 THEN n ELSE MaxQuotes + 1 - n
                    IN  <<MatchAtm + side * k * SPD, f[k]>>]
         Listed(q) == q[2] # 0
     IN  PySorted(SelectSeq(all, Listed), 2, FALSE) : f \in [1..MaxQuotes -> ltps \cup {0}]}

InitMatch ==
    /\ clock = 0
    /\ mainPc = "menu"
    /\ jobs = <<>>
    /\ LET snap == refresh_data(17832)
       IN  /\ ATM = snap.ATM
           /\ TSUD = snap.TSUD
           /\ CE_OTM = snap.CE_OTM
           /\ PE_OTM = snap.PE_OTM
    /\ \E price \in MatchPrices, change \in Changes,
          zipped_ce \in QuoteLists(1, CallLtps), zipped_pe \in QuoteLists(-1, PutLtps) :
          call = [fn |-> "input", price |-> price, change |-> change,
                  zipped_ce |-> zipped_ce, zipped_pe |-> zipped_pe]

ApplyAtPrice ==
    /\ call.fn = "input"
    /\ call' = [fn |-> "fetch_strike_at_price", price |-> call.price, change |-> call.change,
                zipped_ce |-> call.zipped_ce, zipped_pe |-> call.zipped_pe,
                result |-> fetch_strike_at_price(call.price, call.zipped_ce, call.zipped_pe,
                                                 call.change)]
    /\ UNCHANGED <<clock, mainPc, jobs, ATM, TSUD, CE_OTM, PE_OTM>>

ApplySimilar ==
    /\ call.fn = "input"
    /\ call' = [fn |-> "fetch_strikes_with_similar_ltp", price |-> call.price,
                change |-> call.change,
                zipped_ce |-> call.zipped_ce, zipped_pe |-> call.zipped_pe,
                result |-> fetch_strikes_with_similar_ltp(call.zipped_ce, call.zipped_pe,
                                                          call.change)]
    /\ UNCHANGED <<clock, mainPc, jobs, ATM, TSUD, CE_OTM, PE_OTM>>

NextMatch == ApplyAtPrice \/ ApplySimilar

SpecMatch == InitMatch /\ [][NextMatch]_vars

(***************************************************************************)
(* get_ltp_from_inst_list on its own, lines 40-48: a list of up to         *)
(* MaxQuotes different instruments and an answer of kite.ltp that holds    *)
(* the last price of each of them, its items in any order; then the        *)
(* function is applied and the strikes are zipped with what it returns, as *)
(* lines 165-166 do.                                                       *)
(***************************************************************************)
\* the instruments asked for: calls out of the money at ATM 17850
QuotePool == Range(SubSeq(refresh_data(17832).CE_OTM, 1, MaxQuotes + 1))

InstLists ==
    UNION {{l \in [1..n -> QuotePool] : \A a, b \in 1..n : l[a] = l[b] => a = b} : n \in 1..MaxQuotes}

\* kite.ltp's answers to insts with the items in every order
KiteLtpAnyOrder(insts) ==
    UNION {{[n \in 1..Len(asked) |-> asked[f[n]]] : f \in Permutations(1..Len(asked))} :
              asked \in KiteLtp(insts)}

InitQuotes ==
    /\ clock = 0
    /\ mainPc = "menu"
    /\ jobs = <<>>
    /\ LET snap == refresh_data(17832)
       IN  /\ ATM = snap.ATM
           /\ TSUD = snap.TSUD
           /\ CE_OTM = snap.CE_OTM
           /\ PE_OTM = snap.PE_OTM
    /\ \E insts \in InstLists : \E ltps \in KiteLtpAnyOrder(insts) :
          call = [fn |-> "input", instruments |-> insts, ltps |-> ltps]

ApplyGetLtps ==
    /\ call.fn = "input"
    /\ call' = [fn |-> "get_ltp_from_inst_list", instruments |-> call.instruments,
                ltps |-> call.ltps,
                result |-> get_ltp_from_inst_list(call.ltps),
                zipped |-> Zip([n \in 1..Len(call.instruments) |-> call.instruments[n].strike],
                               get_ltp_from_inst_list(call.ltps))]
    /\ UNCHANGED <<clock, mainPc, jobs, ATM, TSUD, CE_OTM, PE_OTM>>

NextQuotes == ApplyGetLtps

SpecQuotes == InitQuotes /\ [][NextQuotes]_vars

(***************************************************************************)
(* refresh_data on its own: the module body, lines 285-287, with no Timer  *)
(* thread running, for every last price of the index in a range of four    *)
(* strikes; the refresh may be repeated.                                   *)
(***************************************************************************)
SnapPrices == (strike_prices[11])..(strike_prices[15])

\* lines 285-286
InitSnap ==
    /\ clock = 0
    /\ mainPc = "menu"
    /\ jobs = <<>>
    /\ ATM = "None"
    /\ TSUD = <<>>
    /\ CE_OTM = <<>>
    /\ PE_OTM = <<>>
    /\ call = [fn |-> "module", ltp |-> 0]

\* line 287: refresh_data() from start to end, get_ltp() having returned ltp
RefreshData(ltp) ==
    /\ LET snap == refresh_data(ltp)
       IN  /\ ATM' = snap.ATM
           /\ TSUD' = snap.TSUD
           /\ CE_OTM' = snap.CE_OTM
           /\ PE_OTM' = snap.PE_OTM
    /\ call' = [fn |-> "refresh_data", ltp |-> ltp]
    /\ UNCHANGED <<clock, mainPc, jobs>>

\* the strike spacings get_atm is called with on its own: SPD and twice SPD
Spacings == {SPD, 2 * SPD}

\* lines 51-63: get_atm(ltp, spd) called on its own
GetAtm(ltp, spd) ==
    /\ call' = [fn |-> "get_atm", ltp |-> ltp, spd |-> spd, result |-> get_atm(ltp, spd)]
    /\ UNCHANGED <<clock, mainPc, jobs, ATM, TSUD, CE_OTM, PE_OTM>>

NextSnap ==
    \/ \E ltp \in SnapPrices : RefreshData(ltp)
    \/ \E ltp \in SnapPrices, spd \in Spacings : GetAtm(ltp, spd)

SpecSnap == InitSnap /\ [][NextSnap]_vars

(***************************************************************************)
(* Properties.                                                             *)
(***************************************************************************)
JobIds == 1..Len(jobs)

\* job j has sent the order of a leg, or is between the match and the orders
Executing(j) ==
    \/ jobs[j].pc \in {"L242", "L243", "L251", "L255"}
    \/ jobs[j].ce_order.status # "none"
    \/ jobs[j].pe_order.status # "none"

\* line 169 has returned in thread j: it has both quote lists
FetchedBoth(j) ==
    \/ jobs[j].pc \in {"L233", "L242", "L243", "L251", "L255", "done"}
    \/ jobs[j].pc = "error" /\ jobs[j].error \in {"get_instrument", "place_order"}

\* line 166 has returned in thread j: it has the call quotes
FetchedCalls(j) == FetchedBoth(j) \/ jobs[j].pc \in {"L169", "L169q"}

\* sell has ended in thread j, by returning or by an exception
Ended(j) == jobs[j].pc \in {"done", "error"}

\* C1: in every job that matched both legs and has ended, place_order was
\* attempted for the put leg whether the call leg's order was placed or failed.
C1_PutLegAttempted ==
    \A j \in JobIds :
        (Ended(j) /\ jobs[j].ce_order.status # "none") => jobs[j].pe_order.status # "none"

\* C2: no Timer is armed for a time that is not strictly later than now: every
\* armed job has a delay above zero.
C2_OnlyFutureArmed == \A j \in JobIds : jobs[j].pc = "armed" => jobs[j].delay > 0

\* sell has run at most once in every job
OnceNotEarly ==
    \A j \in JobIds : jobs[j].runs = (IF jobs[j].pc = "armed" THEN 0 ELSE 1)

\* the step in which a job's sell starts is not before its fire instant
FiresNotEarly ==
    \A j \in JobIds :
        (jobs[j].pc = "armed" /\ jobs'[j].pc # "armed") =>
            clock >= jobs[j].armedAt + jobs[j].delay

\* C3: for every armed job sell runs exactly once: at most once and never
\* before the fire instant, and every armed job's sell does start.
C3_FiresOnceNotEarly ==
    /\ []OnceNotEarly
    /\ [][FiresNotEarly]_vars
    /\ \A j \in 1..MaxJobs : (j \in JobIds) ~> (j \in JobIds /\ jobs[j].runs = 1)

\* C3 witness: sell_at has returned to the loop, which armed a second job for a
\* later instant, while the first job's sell is between its two quote fetches.
C3_Witness ==
    /\ Len(jobs) = 2
    /\ mainPc = "menu"
    /\ jobs[1].pc = "L169"
    /\ jobs[2].pc = "armed"
    /\ jobs[2].delay > 0
    /\ clock < jobs[2].armedAt + jobs[2].delay

\* the instruments of the universe that belong to the snapshot of atm
WindowOf(atm) ==
    {i \in Range(instruments) : atm - 10 * SPD <= i.strike /\ i.strike <= atm + 10 * SPD}
CallsOf(atm) == {i \in WindowOf(atm) : i.instrument_type = "CE" /\ i.strike > atm}
PutsOf(atm) == {i \in WindowOf(atm) : i.instrument_type = "PE" /\ i.strike < atm}

\* the strikes of a set of instruments, of a quote list
StrikesOf(insts) == {i.strike : i \in insts}
QuotedStrikes(zipped) == {q[1] : q \in Range(zipped)}

\* C4: the calls and the puts a job quotes are the call and put candidates of
\* the snapshot of its own refresh, the one of the ATM it computed at line 73.
C4_OwnSnapshot ==
    \A j \in JobIds :
        /\ FetchedCalls(j) => QuotedStrikes(jobs[j].zipped_ce) = StrikesOf(CallsOf(jobs[j].atm))
        /\ FetchedBoth(j) => QuotedStrikes(jobs[j].zipped_pe) = StrikesOf(PutsOf(jobs[j].atm))

\* job j is about to read a global of the snapshot (lines 166, 169, 242, 243)
Reading(j) == jobs[j].pc \in {"L166", "L166q", "L169", "L169q", "L242", "L243"}

\* C5: whenever a job is about to read the snapshot, CE_OTM and PE_OTM are the
\* call and put candidates of the ATM that is there.
C5_SnapshotWhole ==
    (\E j \in JobIds : Reading(j)) =>
        /\ Range(CE_OTM) = CallsOf(ATM)
        /\ Range(PE_OTM) = PutsOf(ATM)

\* TSUD, CE_OTM and PE_OTM are the snapshot of the ATM in place: the window
\* holds exactly the instruments within ten spacings of ATM (both ends
\* included), CE_OTM exactly the CE of the window above ATM, PE_OTM exactly the
\* PE of the window below ATM, each once, none at ATM itself.
SnapshotOfATM ==
    /\ Range(TSUD) = WindowOf(ATM)
    /\ Range(CE_OTM) = {i \in Range(TSUD) : i.instrument_type = "CE" /\ i.strike > ATM}
    /\ Range(PE_OTM) = {i \in Range(TSUD) : i.instrument_type = "PE" /\ i.strike < ATM}
    /\ \A i \in Range(CE_OTM) \cup Range(PE_OTM) : i.strike # ATM
    /\ Len(TSUD) = Cardinality(Range(TSUD))
    /\ Len(CE_OTM) = Cardinality(Range(CE_OTM))
    /\ Len(PE_OTM) = Cardinality(Range(PE_OTM))

\* the step on which a job's refresh_data returns: line 76 stores PE_OTM
RefreshReturns == \E j \in JobIds : jobs[j].pc = "L76i" /\ jobs'[j].pc = "L166"

\* C6: every snapshot refresh_data produces is the snapshot of its ATM: the one
\* of the module body (line 287) and, at the return of each refresh_data run
\* by sell (line 162), the window, the calls above ATM and the puts below ATM
\* that are stored then, with no instrument at ATM in either set.
C6_SnapshotSets ==
    /\ SnapshotOfATM
    /\ [][RefreshReturns => SnapshotOfATM']_vars

\* the entries of a quote list within the tolerance c = <<num, den>> of price t
Band(t, zipped, c) == {q \in Range(zipped) : Abs(t - q[2]) * c[2] <= q[2] * c[1]}

\* C7: fetch_strike_at_price keeps exactly the entries with |t - ltp| <= ltp * c;
\* when both lists have survivors it returns the call survivor of the lowest
\* strike and the put survivor of the highest strike, otherwise the two
\* survivor lists.
C7_MatchAtPrice ==
    call.fn = "fetch_strike_at_price" =>
        LET ce == Band(call.price, call.zipped_ce, call.change)
            pe == Band(call.price, call.zipped_pe, call.change)
        IN  IF ce # {} /\ pe # {}
            THEN /\ call.result[1] \in ce
                 /\ \A q \in ce : call.result[1][1] <= q[1]
                 /\ call.result[2] \in pe
                 /\ \A q \in pe : call.result[2][1] >= q[1]
            ELSE /\ Range(call.result[1]) = ce
                 /\ Len(call.result[1]) = Cardinality(ce)
                 /\ Range(call.result[2]) = pe
                 /\ Len(call.result[2]) = Cardinality(pe)

\* C7 witness: both lists have survivors, a quote is left out of each, and the
\* first call survivor by price is not the one of the lowest strike.
C7_Witness ==
    /\ call.fn = "fetch_strike_at_price"
    /\ LET ce == Band(call.price, call.zipped_ce, call.change)
           pe == Band(call.price, call.zipped_pe, call.change)
       IN  /\ Cardinality(ce) >= 2
           /\ Cardinality(pe) >= 2
           /\ Cardinality(ce) < Len(call.zipped_ce)
           /\ Cardinality(pe) < Len(call.zipped_pe)
           /\ call.zipped_ce[1] \in ce
           /\ call.result[1] # call.zipped_ce[1]

\* the example: price 100, tolerance 0.10 and the two quote lists
IsExample ==
    /\ call.price = 100
    /\ call.change = <<1, 10>>
    /\ call.zipped_ce = <<<<17900, 92>>, <<17950, 101>>, <<18000, 115>>>>
    /\ call.zipped_pe = <<<<17750, 98>>, <<17700, 105>>>>

\* C8 as stated: on the example fetch_strike_at_price returns call (17950, 101)
\* and put (17700, 105).
C8_ExampleAsStated ==
    (call.fn = "fetch_strike_at_price" /\ IsExample) =>
        call.result = <<<<17950, 101>>, <<17700, 105>>>>

\* C8 amended: on the example fetch_strike_at_price returns call (17900, 92) and
\* put (17750, 98), the survivors of the lowest call strike and the highest put
\* strike.
C8_Example ==
    (call.fn = "fetch_strike_at_price" /\ IsExample) =>
        call.result = <<<<17900, 92>>, <<17750, 98>>>>

\* C8 witness: fetch_strike_at_price has been applied to the example.
C8_Witness == call.fn = "fetch_strike_at_price" /\ IsExample

\* C9: an order is sent, or about to be, only in a job whose two quote lists both
\* have an entry within 0.10 of its price; a job that has both lists and lacks
\* such an entry in one of them sends nothing, is at the report or done, and
\* what it reports are pairs of quotes within 0.05 of each other.
C9_NoOrderWithoutMatch ==
    \A j \in JobIds :
        LET ce == Band(jobs[j].price, jobs[j].zipped_ce, <<1, 10>>)
            pe == Band(jobs[j].price, jobs[j].zipped_pe, <<1, 10>>)
        IN  /\ Executing(j) => (ce # {} /\ pe # {})
            /\ (FetchedBoth(j) /\ (ce = {} \/ pe = {})) =>
                  /\ jobs[j].pc \in {"L233", "done"}
                  /\ jobs[j].ce_order.status = "none"
                  /\ jobs[j].pe_order.status = "none"
                  /\ \A e \in Range(jobs[j].similar) :
                        /\ e[1] \in Range(jobs[j].zipped_ce)
                        /\ e[2] \in Range(jobs[j].zipped_pe)
                        /\ Abs(e[2][2] - e[1][2]) * 20 < e[1][2]

\* C9 witness: a job done whose calls matched its price and whose puts did not:
\* it reported similar pairs and sent no order.
C9_Witness ==
    \E j \in JobIds :
        /\ jobs[j].pc = "done"
        /\ Band(jobs[j].price, jobs[j].zipped_ce, <<1, 10>>) # {}
        /\ Band(jobs[j].price, jobs[j].zipped_pe, <<1, 10>>) = {}
        /\ Len(jobs[j].similar) > 0
        /\ jobs[j].ce_order.status = "none"
        /\ jobs[j].pe_order.status = "none"

\* the strike distance of an entry <<call, put>> of the similar list
Distance(e) == Abs(e[2][1] - e[1][1])

\* C10: fetch_strikes_with_similar_ltp returns each pair of a call and a put with
\* |putLtp - callLtp| < callLtp * c once and nothing else, in ascending order of
\* |putStrike - callStrike|.
C10_SimilarPairs ==
    call.fn = "fetch_strikes_with_similar_ltp" =>
        LET c == call.change
            pairs == {e \in Range(call.zipped_ce) \X Range(call.zipped_pe) :
                         Abs(e[2][2] - e[1][2]) * c[2] < e[1][2] * c[1]}
        IN  /\ Range(call.result) = pairs
            /\ Len(call.result) = Cardinality(pairs)
            /\ \A n \in 1..(Len(call.result) - 1) :
                  Distance(call.result[n]) <= Distance(call.result[n + 1])
            /\ \A e \in pairs : Len(call.result) > 0 /\ Distance(call.result[1]) <= Distance(e)

\* C10 witness: a result of three pairs or more, two of them at the same strike
\* distance, with a pair left out.
C10_Witness ==
    /\ call.fn = "fetch_strikes_with_similar_ltp"
    /\ Len(call.result) >= 3
    /\ Len(call.result) < Len(call.zipped_ce) * Len(call.zipped_pe)
    /\ \E n \in 1..(Len(call.result) - 1) :
          Distance(call.result[n]) = Distance(call.result[n + 1])
    /\ \E n \in 1..(Len(call.result) - 1) :
          Distance(call.result[n]) < Distance(call.result[n + 1])

\* C11 as stated: get_atm returns a multiple of spd nearest to ltp, an exact
\* half going to the multiple above (away from zero), and 17832 at spacing 50
\* gives 17850.
C11_TiesAwayFromZero ==
    call.fn = "get_atm" =>
        /\ call.result % call.spd = 0
        /\ 2 * Abs(call.result - call.ltp) <= call.spd
        /\ 2 * Abs(call.result - call.ltp) = call.spd => call.result > call.ltp
        /\ (call.ltp = 17832 /\ call.spd = 50) => call.result = 17850

\* C11: get_atm returns a multiple of spd nearest to ltp; an exact half goes to
\* the multiple whose quotient by spd is even; 17832 at spacing 50 gives 17850.
C11_NearestTiesToEven ==
    call.fn = "get_atm" =>
        /\ call.result % call.spd = 0
        /\ 2 * Abs(call.result - call.ltp) <= call.spd
        /\ 2 * Abs(call.result - call.ltp) = call.spd => (call.result \div call.spd) % 2 = 0
        /\ (call.ltp = 17832 /\ call.spd = 50) => call.result = 17850

\* C11 witness: an exact half that get_atm has rounded down, 17825 at spacing 50
\* giving 17800.
C11_Witness ==
    /\ call.fn = "get_atm"
    /\ call.ltp = 17825
    /\ call.spd = 50
    /\ call.result = 17800

\* a step in which job j ends with an exception changes job j and nothing else
ErrorIsolated ==
    \A j \in JobIds :
        (jobs[j].pc # "error" /\ jobs'[j].pc = "error") =>
            /\ mainPc' = mainPc
            /\ Len(jobs') = Len(jobs)
            /\ \A k \in JobIds \ {j} : jobs'[k] = jobs[k]

\* with a job in error the main loop is where it was and takes a request as before
LoopOpen ==
    (\E k \in JobIds : jobs[k].pc = "error") =>
        /\ mainPc # "terminated" \/ \A j \in JobIds : Ended(j)
        /\ (mainPc = "menu" /\ Len(jobs) < MaxJobs) =>
              ENABLED (\E p \in TargetPrices, t \in 0..MaxTime : AddOrder(p, t))

\* C12: the exception that ends a job changes nothing of any other job nor of
\* the main loop, which goes on taking requests; and whatever job has failed,
\* every armed job fires and runs sell to its return or its own exception.
C12_ErrorsIsolated ==
    /\ [][ErrorIsolated]_vars
    /\ []LoopOpen
    /\ \A j \in 1..MaxJobs :
          (j \in JobIds /\ jobs[j].pc = "armed" /\ \E k \in JobIds : jobs[k].pc = "error")
              ~> (j \in JobIds /\ jobs[j].runs = 1 /\ Ended(j))

\* C12 witness: the first job has ended with an exception, the second has
\* placed both orders, and the main loop is at its menu.
C12_Witness ==
    /\ Len(jobs) = 2
    /\ jobs[1].pc = "error"
    /\ jobs[2].pc = "done"
    /\ jobs[2].pe_order.status = "placed"
    /\ mainPc = "menu"

\* the job's reference-price fetch or one of its two quote fetches has raised
FetchFailed(j) == jobs[j].error \in {"get_ltp", "get_ltp_from_inst_list"}

\* job j, ended by a fetch that raised, is left as it is
FailureFinal ==
    \A j \in JobIds : (jobs[j].pc = "error" /\ FetchFailed(j)) => jobs'[j] = jobs[j]

\* C13: a job whose reference-price fetch (line 73) or quote fetch (line 166 or
\* 169) has raised is in error, has run sell once, has matched nothing and
\* sent no order; and it stays so: it is not started again.
C13_FetchFailureFinal ==
    /\ [](\A j \in JobIds :
            FetchFailed(j) =>
                /\ jobs[j].pc = "error"
                /\ jobs[j].runs = 1
                /\ jobs[j].ce = <<>> /\ jobs[j].pe = <<>>
                /\ jobs[j].ce_order.status = "none"
                /\ jobs[j].pe_order.status = "none")
    /\ [][FailureFinal]_vars

\* C13 witness: a job ended by the reference-price fetch, one ended by the
\* put-side quote fetch after its call quotes had come.
C13_Witness ==
    /\ \E j \in JobIds : jobs[j].pc = "error" /\ jobs[j].error = "get_ltp"
    /\ \E j \in JobIds :
          /\ jobs[j].pc = "error"
          /\ jobs[j].error = "get_ltp_from_inst_list"
          /\ Len(jobs[j].zipped_ce) > 0

\* C14: once the operator has left the add-order loop every job armed by then
\* fires and runs sell to its return or its exception, and the process has
\* exited only in a state where every armed job has run and ended.
C14_ArmedJobsOutliveLoop ==
    /\ [](mainPc = "terminated" => \A j \in JobIds : jobs[j].runs = 1 /\ Ended(j))
    /\ \A j \in 1..MaxJobs :
          (mainPc = "exited" /\ j \in JobIds /\ jobs[j].pc = "armed")
              ~> (j \in JobIds /\ jobs[j].runs = 1 /\ Ended(j))

\* C14 witness: the process has exited after two jobs have run to the end, one
\* of them with both orders placed.
C14_Witness ==
    /\ mainPc = "terminated"
    /\ Len(jobs) = 2
    /\ \A j \in JobIds : jobs[j].runs = 1 /\ Ended(j)
    /\ \E j \in JobIds : jobs[j].pe_order.status = "placed"

\* the last price the answer ltps holds for instrument i
PriceOf(ltps, i) == (CHOOSE e \in Range(ltps) : e[1] = QuoteKey(i))[2]

\* C15: get_ltp_from_inst_list returns one price per instrument asked for, the
\* n-th being the answer's price of the n-th instrument, so that zipping the
\* strikes with it pairs each strike with its own price.
C15_SameOrderAsInput ==
    call.fn = "get_ltp_from_inst_list" =>
        /\ Len(call.result) = Len(call.instruments)
        /\ \A n \in 1..Len(call.instruments) :
              /\ call.result[n] = PriceOf(call.ltps, call.instruments[n])
              /\ call.zipped[n] = <<call.instruments[n].strike,
                                    PriceOf(call.ltps, call.instruments[n])>>

\* the state of spec 4.4 a job is in: ARMED before the Timer fires; REFRESHING
\* in refresh_data (lines 73-76); MATCHING from the first quote fetch to the
\* branch of line 230; EXECUTING in lines 242-257; REPORTING_NO_MATCH in lines
\* 231-239
JobState(job) ==
    CASE job.pc = "armed" -> "ARMED"
      [] job.pc \in {"L73", "L74", "L75", "L75i", "L76", "L76i"} -> "REFRESHING"
      [] job.pc \in {"L166", "L166q", "L169", "L169q"} -> "MATCHING"
      [] job.pc = "L233" -> "REPORTING_NO_MATCH"
      [] job.pc \in {"L242", "L243", "L251", "L255"} -> "EXECUTING"
      [] job.pc = "done" -> "DONE"
      [] job.pc = "error" -> "ERROR"

Allowed ==
    {<<"ARMED", "REFRESHING">>, <<"REFRESHING", "MATCHING">>,
     <<"MATCHING", "EXECUTING">>, <<"MATCHING", "REPORTING_NO_MATCH">>,
     <<"EXECUTING", "DONE">>, <<"REPORTING_NO_MATCH", "DONE">>,
     <<"REFRESHING", "ERROR">>, <<"MATCHING", "ERROR">>, <<"EXECUTING", "ERROR">>,
     <<"REPORTING_NO_MATCH", "ERROR">>}

\* the statements of sell a job has behind it are in order: the refresh before
\* the quote fetches, the call quotes before the put quotes, both before the
\* match, the match before the lookups and the orders
InOrder(job) ==
    /\ JobState(job) \in {"MATCHING", "EXECUTING", "REPORTING_NO_MATCH", "DONE"} => job.atm # 0
    /\ Len(job.zipped_ce) > 0 => job.atm # 0
    /\ Len(job.zipped_pe) > 0 => Len(job.zipped_ce) > 0
    /\ (Len(job.ce) > 0 \/ Len(job.pe) > 0 \/ Len(job.similar) > 0) => Len(job.zipped_pe) > 0
    /\ JobState(job) \in {"EXECUTING", "REPORTING_NO_MATCH", "DONE"} => Len(job.zipped_pe) > 0
    /\ (job.ce_ins # <<>> \/ job.ce_order.status # "none") => Matched(job.ce, job.pe)
    /\ job.pe_order.status # "none" => job.ce_order.status = "placed"
    /\ JobState(job) = "ARMED" <=> job.runs = 0

\* C16: every step of a job keeps it in its state or moves it along ARMED,
\* REFRESHING, MATCHING, then EXECUTING or REPORTING_NO_MATCH, then DONE, or from
\* a state other than ARMED, DONE and ERROR to ERROR; and in every state the
\* refresh has come before the quote fetches, those before the match, and the
\* match before any order.
C16_StateMachine ==
    /\ [][\A j \in JobIds :
             \/ JobState(jobs'[j]) = JobState(jobs[j])
             \/ <<JobState(jobs[j]), JobState(jobs'[j])>> \in Allowed]_vars
    /\ [](\A j \in JobIds : InOrder(jobs[j]))

\* C16 witness: one job done after both orders, one done after the report.
C16_Witness ==
    /\ \E j \in JobIds :
          /\ JobState(jobs[j]) = "DONE"
          /\ jobs[j].pe_order.status = "placed"
    /\ \E j \in JobIds :
          /\ JobState(jobs[j]) = "DONE"
          /\ jobs[j].ce_order.status = "none"
          /\ Len(jobs[j].zipped_pe) > 0

\* C17: the quantity of each order sent is 1 * the lot size of the instrument of
\* that order's own leg: the call instrument's for the call order, the put
\* instrument's for the put order.
C17_OwnLotSize ==
    \A j \in JobIds :
        /\ jobs[j].ce_order.status # "none" =>
              jobs[j].ce_order.quantity = 1 * jobs[j].ce_ins.lot_size
        /\ jobs[j].pe_order.status # "none" =>
              jobs[j].pe_order.quantity = 1 * jobs[j].pe_ins.lot_size

\* C18: no job ends by get_instrument raising (lines 242-243), whatever other
\* job refreshes the globals between its match and its lookups.
C18_LookupNeverFails ==
    \A j \in JobIds : jobs[j].error # "get_instrument"

\* C19: in every job that has matched both legs, the call's strike is above the
\* put's.
C19_CallAbovePut ==
    \A j \in JobIds :
        (Executing(j) /\ Matched(jobs[j].ce, jobs[j].pe)) => jobs[j].ce[1] > jobs[j].pe[1]

\* the step is job j's line 73 ending with get_ltp raising
Line73Raises(j) ==
    /\ jobs[j].pc = "L73"
    /\ jobs'[j].pc = "error"
    /\ jobs'[j].error = "get_ltp"

\* C20: the step in which get_ltp raises inside refresh_data (line 73) leaves
\* ATM, TSUD, CE_OTM and PE_OTM as they were.
C20_FailedRefreshKeepsSnapshot ==
    [][\A j \in JobIds : Line73Raises(j) => UNCHANGED <<ATM, TSUD, CE_OTM, PE_OTM>>]_vars

\* C20 witness: a job ended by get_ltp while the globals hold, whole, the
\* snapshot of the ATM that another job's refresh computed.
C20_Witness ==
    \E j \in JobIds :
        /\ jobs[j].pc = "error"
        /\ jobs[j].error = "get_ltp"
        /\ \E k \in JobIds : jobs[k].atm = ATM /\ jobs[k].pc = "done"
        /\ CE_OTM = Line75(TSUD, ATM)
        /\ PE_OTM = Line76(TSUD, ATM)

====
